---- MODULE Spec2Model ----
(***************************************************************************)
(* A model of dynamic_reload (src/src/lib.rs): the registry of loaded      *)
(* libraries (DynamicReload.libs), add_library, the update loop with its   *)
(* Before / After / ReloadFailed callbacks, shadow staging (try_copy) and  *)
(* the path search.  The default build is modelled: the features           *)
(* "no-unload" and "no-timestamps" are off and cfg!(windows) is false.     *)
(*                                                                         *)
(* The file system, the platform loader, the clock and the watcher thread  *)
(* are the environment: every operation that looks at them draws what it   *)
(* sees from a small set of possible observations.                         *)
(***************************************************************************)
EXTENDS Integers, Sequences, FiniteSets, TLC

(* ------------------------------ bounds -------------------------------- *)
\* add_library calls made by the host
MaxAdds == 2
\* change events the watcher thread delivers in all
MaxEvents == 2
\* largest millisecond timestamp the clock reaches
MaxClock == 0

(* ------------------------- program constants -------------------------- *)
\* try_copy: for _ in 0..10
CopyAttempts == 10

(* ------------------------------- paths -------------------------------- *)
\* A path is a directory and a file name.  NoPath is Option::None.
NoPath == [dir |-> "<none>", name |-> "<none>"]
NoDir == "<none>"
\* the working directory, as the parent of a bare relative path
Cwd == "."
\* std::env::current_exe()
ExePath == [dir |-> "/bin", name |-> "app"]
\* the root of the temporary directory made by get_temp_dir
ShadowRoot == "/shadow"

join(d, n) == [dir |-> d, name |-> n]
file_name(p) == p.name
\* Path::parent of a file path
parent(p) == p.dir
\* Path::parent of a directory: the root has none
DirParent(d) == IF d = "/bin" THEN "/" ELSE NoDir

\* directories in which add_library may find a candidate
Dirs == {Cwd, "/sp", "/bin", "/"}
\* what fs::metadata reports for a candidate path
FileKinds == {"absent", "dir", "file"}
\* the logical names the host passes to add_library
LibNames == {"a"}
PlatformNames == {"No", "Yes"}

\* get_dynamiclib_name, the linux variant
get_dynamiclib_name(name) == "lib" \o name \o ".so"

get_library_name(name, name_format) ==
    IF name_format = "Yes" THEN get_dynamiclib_name(name) ELSE name

\* the file names that occur in watched directories
FileNames == {get_library_name(n, f) : n \in LibNames, f \in PlatformNames}

(* ------------------------------ values -------------------------------- *)
NoErr == [kind |-> "none", src |-> NoPath, dest |-> NoPath, name |-> ""]
ErrFind(name) == [kind |-> "Find", src |-> NoPath, dest |-> NoPath, name |-> name]
ErrLoad == [kind |-> "Load", src |-> NoPath, dest |-> NoPath, name |-> ""]
ErrCopy(src, dest) == [kind |-> "Copy", src |-> src, dest |-> dest, name |-> ""]
ErrCopyTimeOut(src, dest) ==
    [kind |-> "CopyTimeOut", src |-> src, dest |-> dest, name |-> ""]

\* struct Lib behind its Arc: id is the identity of the allocation
NoLib == [id |-> 0, loaded_path |-> NoPath, original_path |-> NoPath]
Lib(id, loaded, original) ==
    [id |-> id, loaded_path |-> loaded, original_path |-> original]

Ok(lib) == [ok |-> TRUE, lib |-> lib, err |-> NoErr]
Err(e) == [ok |-> FALSE, lib |-> NoLib, err |-> e]

Range(s) == {s[k] : k \in DOMAIN s}

(* ----------------------------- try_copy ------------------------------- *)
\* What one pass of the retry loop meets:
\*   "nometa"   fs::metadata(src) fails
\*   "empty"    the metadata reports len = 0
\*   "copyfail" len > 0 and fs::copy returns an error
\*   "ok"       len > 0 and fs::copy succeeds
Outcomes == {"nometa", "empty", "copyfail", "ok"}

\* the loop's state: passes made, fs::copy calls, sleeps, and the result
TcStart == [attempt |-> 0, copies |-> 0, sleeps |-> 0, result |-> "running"]
TcIdle == [attempt |-> 0, copies |-> 0, sleeps |-> 0, result |-> "idle"]

\* a mutant of the loop body: the copy is made without looking at the size
M_TryCopyAttempt(t, ob) ==
    IF ob = "ok"
    THEN [t EXCEPT !.copies = @ + 1, !.result = "Ok"]
    ELSE [t EXCEPT !.attempt = @ + 1,
                   !.copies = IF ob \in {"copyfail", "empty"} THEN @ + 1 ELSE @,
                   !.sleeps = @ + 1,
                   !.result = IF t.attempt + 1 >= CopyAttempts
                              THEN "CopyTimeOut" ELSE "running"]

\* one pass of `for _ in 0..10`, and the fall through to CopyTimeOut after
\* the last one
TryCopyAttempt(t, ob) ==
    IF ob = "ok"
    THEN [t EXCEPT !.copies = @ + 1, !.result = "Ok"]
    ELSE [t EXCEPT !.attempt = @ + 1,
                   !.copies = IF ob = "copyfail" THEN @ + 1 ELSE @,
                   !.sleeps = @ + 1,
                   !.result = IF t.attempt + 1 >= CopyAttempts
                              THEN "CopyTimeOut" ELSE "running"]

RECURSIVE TryCopyRun(_, _)
TryCopyRun(t, obs) ==
    IF t.result # "running" \/ t.attempt >= Len(obs)
    THEN t
    ELSE TryCopyRun(TryCopyAttempt(t, obs[t.attempt + 1]), obs)

\* a mutant of try_copy: a failed fs::copy is reported as Error::Copy
M_try_copy(src, dest, obs) ==
    LET t == TryCopyRun(TcStart, obs)
    IN  IF t.result = "Ok" THEN Ok(NoLib)
        ELSE IF t.copies > 0 THEN Err(ErrCopy(src, dest))
        ELSE Err(ErrCopyTimeOut(src, dest))

\* try_copy(src, dest) when the passes meet obs[1], obs[2], ...
try_copy(src, dest, obs) ==
    LET t == TryCopyRun(TcStart, obs)
    IN  IF t.result = "Ok" THEN Ok(NoLib) ELSE Err(ErrCopyTimeOut(src, dest))

\* the passes of one try_copy call: `bad` on the first k passes, then "ok"
ObsSeq(bad, k) == [j \in 1..CopyAttempts |-> IF j <= k THEN bad ELSE "ok"]
CopyObs ==
    {ObsSeq(bad, CopyAttempts) : bad \in Outcomes \ {"ok"}}
    \cup {ObsSeq("copyfail", 0), ObsSeq("copyfail", CopyAttempts - 1)}
ObsOk == ObsSeq("ok", 0)

(* ------------------------------ loading ------------------------------- *)
\* format_filename without "no-timestamps": <millis>_<file name> in the
\* shadow directory; ts is SystemTime::now() in milliseconds
format_filename(shadow, full_path, ts) ==
    join(shadow, ToString(ts) \o "_" \o file_name(full_path))

\* init_library: valid says whether Library::new accepts the file
init_library(org_path, path, valid, id) ==
    IF valid THEN Ok(Lib(id, path, org_path)) ELSE Err(ErrLoad)

\* a mutant of load_library: the copy is made but the library is loaded from
\* where it was found
M_load_library(shadow, full_path, obs, valid, ts, id) ==
    IF shadow # NoDir
    THEN LET path == format_filename(shadow, full_path, ts)
             c == try_copy(full_path, path, obs)
         IN  IF c.ok THEN init_library(full_path, full_path, valid, id) ELSE c
    ELSE init_library(NoPath, full_path, valid, id)

\* load_library under the configuration `shadow` (NoDir: no shadow directory)
load_library(shadow, full_path, obs, valid, ts, id) ==
    IF shadow # NoDir
    THEN LET path == format_filename(shadow, full_path, ts)
             c == try_copy(full_path, path, obs)
         IN  IF c.ok THEN init_library(full_path, path, valid, id) ELSE c
    ELSE init_library(NoPath, full_path, valid, id)

(* ---------------------------- path search ----------------------------- *)
\* fs[d] is what fs::metadata reports for the wanted file name in directory d
is_file(fs, path) ==
    IF path.dir \in DOMAIN fs /\ fs[path.dir] = "file" THEN path ELSE NoPath

\* a bare relative path: its parent is the working directory
search_current_dir(fs, name) == is_file(fs, join(Cwd, name))

RECURSIVE search_relative_from(_, _, _, _)
search_relative_from(fs, paths, k, name) ==
    IF k > Len(paths) THEN NoPath
    ELSE IF is_file(fs, join(paths[k], name)) # NoPath
         THEN join(paths[k], name)
         ELSE search_relative_from(fs, paths, k + 1, name)

search_relative_paths(fs, paths, name) == search_relative_from(fs, paths, 1, name)

\* search_backwards_from_file, entered with the directory get_parent_dir gave
RECURSIVE search_backwards_from_file(_, _, _)
search_backwards_from_file(fs, dir, lib_name) ==
    IF dir = NoDir THEN NoPath
    ELSE IF is_file(fs, join(dir, lib_name)) # NoPath
         THEN join(dir, lib_name)
         ELSE search_backwards_from_file(fs, DirParent(dir), lib_name)

search_backwards_from_exe(fs, lib_name) ==
    search_backwards_from_file(fs, parent(ExePath), lib_name)

\* a mutant of search_dirs: the search from the executable is left out
M_search_dirs(fs, paths, name, name_format) ==
    LET lib_name == get_library_name(name, name_format)
    IN  IF search_current_dir(fs, lib_name) # NoPath
        THEN search_current_dir(fs, lib_name)
        ELSE search_relative_paths(fs, paths, lib_name)

\* a mutant of search_dirs: the search paths are tried before the working
\* directory
M_search_dirs_paths_first(fs, paths, name, name_format) ==
    LET lib_name == get_library_name(name, name_format)
    IN  IF search_relative_paths(fs, paths, lib_name) # NoPath
        THEN search_relative_paths(fs, paths, lib_name)
        ELSE IF search_current_dir(fs, lib_name) # NoPath
        THEN search_current_dir(fs, lib_name)
        ELSE search_backwards_from_exe(fs, lib_name)

search_dirs(fs, paths, name, name_format) ==
    LET lib_name == get_library_name(name, name_format)
    IN  IF search_current_dir(fs, lib_name) # NoPath
        THEN search_current_dir(fs, lib_name)
        ELSE IF search_relative_paths(fs, paths, lib_name) # NoPath
        THEN search_relative_paths(fs, paths, lib_name)
        ELSE search_backwards_from_exe(fs, lib_name)

(* ----------------------------- registry ------------------------------- *)
\* a mutant of should_reload: a library with no original_path is matched by
\* the file name of its loaded_path
M_should_reload(reload_path, lib) ==
    file_name(reload_path) =
        file_name(IF lib.original_path # NoPath
                  THEN lib.original_path ELSE lib.loaded_path)

\* a mutant of should_reload: every library that has an original_path is
\* reloaded, whatever file the event names
M_should_reload_any(reload_path, lib) == lib.original_path # NoPath

\* a mutant of should_reload: the whole path is compared, not the file name
M_should_reload_path(reload_path, lib) ==
    /\ lib.original_path # NoPath
    /\ reload_path = lib.original_path

should_reload(reload_path, lib) ==
    /\ lib.original_path # NoPath
    /\ file_name(reload_path) = file_name(lib.original_path)

\* a mutant of PartialEq for Lib: the loaded_path is compared as well
M_eq(self, other) ==
    /\ self.original_path = other.original_path
    /\ self.loaded_path = other.loaded_path

\* impl PartialEq for Lib
eq(self, other) == self.original_path = other.original_path

\* Vec::swap_remove(idx), idx counted from 0: the last element takes the place
swap_remove(v, idx) ==
    LET n == Len(v)
    IN  [k \in 1..(n - 1) |-> IF k = idx + 1 THEN v[n] ELSE v[k]]

remove_lib(v, idx) == swap_remove(v, idx)

\* Watcher::watch(dir): failed says whether the call returned an error
watch(dirs, dir, failed) == IF failed THEN dirs ELSE dirs \cup {dir}

(* ------------------------------- state -------------------------------- *)
VARIABLES
    libs,          \* DynamicReload.libs: Vec<Arc<Lib>>
    watcher,       \* DynamicReload.watcher is Some
    shadow_dir,    \* DynamicReload.shadow_dir: its path, or NoDir
    search_paths,  \* DynamicReload.search_paths
    watch_recv,    \* the channel from the watcher thread: batches in flight
    watched,       \* directories the watcher watches
    watch_failed,  \* directories for which a watch call returned an error
    clock,         \* the last millisecond timestamp read
    next_id,       \* identity of the next Arc<Lib> allocated
    pc,            \* where the host thread is
    events,        \* update: the events of the batch still to handle
    file_path,     \* reload_libs: the event's path
    hi,            \* reload_libs: the range 0..hi is still to be visited
    index,         \* reload_lib: index, counted from 0
    loaded,        \* reload_lib: what load_library returned
    log,           \* the callbacks made by the running (or last) update call
    ev_no,         \* events handled by the running (or last) update call
    libs0,         \* the registry when the handling of the last event began
    last_add,      \* the last add_library call and what it returned
    n_adds,        \* add_library calls made
    n_sent,        \* events the watcher thread has sent
    tc,            \* try_copy run on its own: the loop's state
    seen,          \* try_copy run on its own: passes met, by outcome
    resolve,       \* search_dirs run on its own: what it is given and returns
    n_done,        \* messages of the channel update has dealt with, counting
                   \* an Ok batch by its events and an Err as one
    added,         \* by Arc identity: the add_library call (counted from 1)
                   \* whose library the handle is a load of
    host,          \* identities of the handles the host holds a clone of
    unloaded,      \* identities of the Libs dropped: their Library is closed
    reload_failed  \* identities of the handles whose reload ended with
                   \* ReloadFailed

vars == <<libs, watcher, shadow_dir, search_paths, watch_recv, watched,
          watch_failed, clock, next_id, pc, events, file_path, hi, index,
          loaded, log, ev_no, libs0, last_add, n_adds, n_sent, tc, seen,
          resolve, n_done, added, host, unloaded,
          reload_failed>>

config == <<watcher, shadow_dir, search_paths>>
copy_vars == <<tc, seen>>
loop_vars == <<events, file_path, hi, index, loaded, ev_no, libs0>>
ref_vars == <<added, host, unloaded, reload_failed>>

NoCall == [called |-> FALSE, done |-> FALSE, name |-> "", name_format |-> "",
           found |-> FALSE, path |-> NoPath, obs |-> ObsOk, valid |-> FALSE,
           result |-> Err(NoErr), libs |-> <<>>, watched |-> {}]
NoSeen == [o \in Outcomes |-> 0]
\* enum Search, the third argument of DynamicReload::new
SearchModes == {"Default", "Backwards"}
NoResolve == [called |-> FALSE, done |-> FALSE, search |-> "Default",
              fs |-> [d \in Dirs |-> "absent"], name |-> "",
              name_format |-> "No", result |-> NoPath]

\* one callback: update_call(data, state, lib), with the registry as it is
\* at the time of the call
Callback(state, lib, err) ==
    [state |-> state, lib |-> lib, err |-> err, libs |-> libs, ev |-> ev_no]

\* DynamicReload::new: get_watcher and get_temp_dir may each give None
Init ==
    /\ libs = <<>>
    /\ watcher \in BOOLEAN
    /\ shadow_dir \in {NoDir, ShadowRoot}
    /\ search_paths = <<"/sp">>
    /\ watch_recv = <<>>
    /\ watched = {}
    /\ watch_failed = {}
    /\ clock = 0
    /\ next_id = 1
    /\ pc = "idle"
    /\ events = <<>>
    /\ file_path = NoPath
    /\ hi = 0
    /\ index = 0
    /\ loaded = Err(NoErr)
    /\ log = <<>>
    /\ ev_no = 0
    /\ libs0 = <<>>
    /\ last_add = NoCall
    /\ n_adds = 0
    /\ n_sent = 0
    /\ tc = TcIdle
    /\ seen = NoSeen
    /\ resolve = NoResolve
    /\ n_done = 0
    /\ added = <<>>
    /\ host = {}
    /\ unloaded = {}
    /\ reload_failed = {}

\* what a load may meet: the passes of try_copy and the clock are looked at
\* only when a shadow directory is configured
ObsChoices == IF shadow_dir = NoDir THEN {ObsOk} ELSE CopyObs
ClockChoices == IF shadow_dir = NoDir THEN {clock} ELSE clock..MaxClock

(* ---------------------------- add_library ----------------------------- *)
\* add_library is entered and try_load_library runs search_dirs; fs is what
\* the file system holds for the wanted name.  Err(Find) returns at once.
add_search(name, name_format, fs) ==
    LET path == search_dirs(fs, search_paths, name, name_format)
        call == [called |-> TRUE, done |-> path = NoPath, name |-> name,
                 name_format |-> name_format,
                 found |-> \E d \in Dirs : fs[d] = "file", path |-> path,
                 obs |-> ObsOk, valid |-> FALSE,
                 result |-> Err(IF path = NoPath THEN ErrFind(name) ELSE NoErr),
                 libs |-> libs, watched |-> watched]
    IN  /\ pc = "idle"
        /\ n_adds < MaxAdds
        /\ n_adds' = n_adds + 1
        /\ last_add' = call
        /\ pc' = IF path = NoPath THEN "idle" ELSE "add_load"
        /\ log' = <<>>
        /\ ev_no' = 0
        /\ UNCHANGED <<libs, config, watch_recv, watched, watch_failed, clock,
                       next_id, events, file_path, hi, index, loaded, libs0,
                       n_sent, copy_vars,
                   resolve, n_done,
                   ref_vars>>

AddLibrarySearch ==
    \E name \in LibNames, name_format \in PlatformNames,
       fs \in [Dirs -> FileKinds] :
        add_search(name, name_format, fs)

\* try_load_library, Some(path): Self::load_library(self, &path); an error
\* returns from add_library
add_load(obs, valid, ts) ==
    LET r == load_library(shadow_dir, last_add.path, obs, valid, ts, next_id)
    IN  /\ pc = "add_load"
        /\ last_add' = [last_add EXCEPT !.obs = obs, !.valid = valid,
                                        !.result = r, !.done = ~r.ok]
        /\ next_id' = IF r.ok THEN next_id + 1 ELSE next_id
        /\ clock' = IF shadow_dir # NoDir THEN ts ELSE clock
        /\ pc' = IF r.ok THEN "add_register" ELSE "idle"
        /\ added' = IF r.ok THEN Append(added, n_adds) ELSE added
        /\ UNCHANGED <<libs, config, watch_recv, watched, watch_failed,
                       loop_vars, log, n_adds, n_sent, copy_vars,
                   resolve, n_done,
                   host, unloaded, reload_failed>>

AddLibraryLoad ==
    \E obs \in ObsChoices, valid \in BOOLEAN, ts \in ClockChoices :
        add_load(obs, valid, ts)

\* a mutant of add_library's Ok arm: the parent directory is not watched
M_add_register(failed) ==
    /\ pc = "add_register"
    /\ libs' = Append(libs, last_add.result.lib)
    /\ last_add' = [last_add EXCEPT !.done = TRUE]
    /\ pc' = "idle"
    /\ host' = host \cup {last_add.result.lib.id}
    /\ UNCHANGED <<config, watch_recv, watched, watch_failed, clock, next_id,
                   loop_vars, log, n_adds, n_sent, copy_vars,
                   resolve, n_done,
                   added, unloaded, reload_failed>>

\* a mutant of add_library's Ok arm: with no watcher the library is returned
\* but not registered
M_add_register_watched(failed) ==
    LET lib == last_add.result.lib
        orig == lib.original_path
    IN  /\ pc = "add_register"
        /\ IF watcher /\ orig # NoPath
           THEN /\ watched' = watch(watched, parent(orig), failed)
                /\ watch_failed' = IF failed
                                   THEN watch_failed \cup {parent(orig)}
                                   ELSE watch_failed
           ELSE UNCHANGED <<watched, watch_failed>>
        /\ libs' = IF watcher THEN Append(libs, lib) ELSE libs
        /\ last_add' = [last_add EXCEPT !.done = TRUE]
        /\ pc' = "idle"
        /\ host' = host \cup {last_add.result.lib.id}
        /\ UNCHANGED <<config, watch_recv, clock, next_id, loop_vars, log,
                       n_adds, n_sent, copy_vars, resolve, n_done,
                   added, unloaded, reload_failed>>

\* a mutant of add_library's Ok arm: the registry gets a Lib of its own in a
\* new Arc, not a clone of the handle that is returned
M_add_register_copy(failed) ==
    LET lib == last_add.result.lib
        orig == lib.original_path
    IN  /\ pc = "add_register"
        /\ IF watcher /\ orig # NoPath
           THEN /\ watched' = watch(watched, parent(orig), failed)
                /\ watch_failed' = IF failed
                                   THEN watch_failed \cup {parent(orig)}
                                   ELSE watch_failed
           ELSE UNCHANGED <<watched, watch_failed>>
        /\ libs' = Append(libs, [lib EXCEPT !.id = next_id])
        /\ next_id' = next_id + 1
        /\ last_add' = [last_add EXCEPT !.done = TRUE]
        /\ pc' = "idle"
        /\ host' = host \cup {last_add.result.lib.id}
        /\ added' = Append(added, n_adds)
        /\ UNCHANGED <<config, watch_recv, clock, loop_vars, log,
                       n_adds, n_sent, copy_vars, resolve, n_done,
                   unloaded, reload_failed>>

\* add_library, Ok(lib): watch the parent of original_path when there is a
\* watcher and an original_path (the result of watch is dropped), then
\* self.libs.push(lib.clone()) and Ok(lib)
add_register(failed) ==
    LET lib == last_add.result.lib
        orig == lib.original_path
    IN  /\ pc = "add_register"
        /\ IF watcher /\ orig # NoPath
           THEN /\ watched' = watch(watched, parent(orig), failed)
                /\ watch_failed' = IF failed
                                   THEN watch_failed \cup {parent(orig)}
                                   ELSE watch_failed
           ELSE UNCHANGED <<watched, watch_failed>>
        /\ libs' = Append(libs, lib)
        /\ last_add' = [last_add EXCEPT !.done = TRUE]
        /\ pc' = "idle"
        /\ host' = host \cup {last_add.result.lib.id}
        /\ UNCHANGED <<config, watch_recv, clock, next_id, loop_vars, log,
                       n_adds, n_sent, copy_vars,
                   resolve, n_done,
                   added, unloaded, reload_failed>>

AddLibraryRegister == \E failed \in BOOLEAN : add_register(failed)

(* ------------------------------- update ------------------------------- *)
\* the host calls update
Update ==
    /\ pc = "idle"
    /\ pc' = "recv"
    /\ log' = <<>>
    /\ ev_no' = 0
    /\ last_add' = NoCall
    /\ UNCHANGED <<libs, config, watch_recv, watched, watch_failed, clock,
                   next_id, events, file_path, hi, index, loaded, libs0,
                   n_adds, n_sent, copy_vars,
                   resolve, n_done,
                   ref_vars>>

\* a mutant of the receive: the messages behind the one received are thrown
\* away
M_TryRecv_drop ==
    /\ pc = "recv"
    /\ IF watch_recv = <<>>
       THEN /\ pc' = "idle"
            /\ UNCHANGED <<watch_recv, events, n_done>>
       ELSE /\ watch_recv' = <<>>
            /\ IF Head(watch_recv).ok
               THEN /\ events' = Head(watch_recv).events
                    /\ pc' = "for_event"
                    /\ UNCHANGED n_done
               ELSE /\ pc' = "recv"
                    /\ n_done' = n_done + 1
                    /\ UNCHANGED events
    /\ UNCHANGED <<libs, config, watched, watch_failed, clock, next_id,
                   file_path, hi, index, loaded, log, ev_no, libs0, last_add,
                   n_adds, n_sent, copy_vars, resolve,
                   ref_vars>>

\* a mutant of the receive: recv() in place of try_recv(), which waits for a
\* message when the channel is empty
M_TryRecv ==
    /\ pc = "recv"
    /\ watch_recv # <<>>
    /\ watch_recv' = Tail(watch_recv)
    /\ IF Head(watch_recv).ok
       THEN /\ events' = Head(watch_recv).events
            /\ pc' = "for_event"
            /\ UNCHANGED n_done
       ELSE /\ pc' = "recv"
            /\ n_done' = n_done + 1
            /\ UNCHANGED events
    /\ UNCHANGED <<libs, config, watched, watch_failed, clock, next_id,
                   file_path, hi, index, loaded, log, ev_no, libs0, last_add,
                   n_adds, n_sent, copy_vars, resolve,
                   ref_vars>>

\* while let Ok(evt) = self.watch_recv.try_recv()
TryRecv ==
    /\ pc = "recv"
    /\ IF watch_recv = <<>>
       THEN /\ pc' = "idle"
            /\ UNCHANGED <<watch_recv, events, n_done>>
       ELSE /\ watch_recv' = Tail(watch_recv)
            /\ IF Head(watch_recv).ok
               THEN /\ events' = Head(watch_recv).events
                    /\ pc' = "for_event"
                    /\ UNCHANGED n_done
               ELSE /\ pc' = "recv"
                    /\ n_done' = n_done + 1
                    /\ UNCHANGED events
    /\ UNCHANGED <<libs, config, watched, watch_failed, clock, next_id,
                   file_path, hi, index, loaded, log, ev_no, libs0, last_add,
                   n_adds, n_sent, copy_vars, resolve,
                   ref_vars>>

\* for event in events: reload_libs begins with len = self.libs.len()
NextEvent ==
    /\ pc = "for_event"
    /\ IF events = <<>>
       THEN /\ pc' = "recv"
            /\ file_path' = NoPath
            /\ libs0' = <<>>
            /\ UNCHANGED <<events, hi, ev_no, n_done>>
       ELSE /\ file_path' = Head(events)
            /\ events' = Tail(events)
            /\ hi' = Len(libs)
            /\ ev_no' = ev_no + 1
            /\ n_done' = n_done + 1
            /\ libs0' = libs
            /\ pc' = "scan"
    /\ UNCHANGED <<libs, config, watch_recv, watched, watch_failed, clock,
                   next_id, index, loaded, log, last_add, n_adds, n_sent,
                   copy_vars, resolve,
                   ref_vars>>

\* a mutant of the scan: the registry is walked from the front
M_Scan ==
    /\ pc = "scan"
    /\ IF hi = 0
       THEN /\ pc' = "for_event"
            /\ UNCHANGED <<hi, index>>
       ELSE /\ hi' = hi - 1
            /\ index' = Len(libs0) - hi
            /\ pc' = IF Len(libs0) - hi + 1 > Len(libs) THEN "panic"
                     ELSE IF should_reload(file_path, libs[Len(libs0) - hi + 1])
                          THEN "before" ELSE "scan"
    /\ UNCHANGED <<libs, config, watch_recv, watched, watch_failed, clock,
                   next_id, events, file_path, loaded, log, ev_no, libs0,
                   last_add, n_adds, n_sent, copy_vars,
                   resolve, n_done,
                   ref_vars>>

\* for i in (0..len).rev(): if should_reload(file_path, &self.libs[i]);
\* an index past the end of the Vec panics
Scan ==
    /\ pc = "scan"
    /\ IF hi = 0
       THEN /\ pc' = "for_event"
            /\ UNCHANGED <<hi, index>>
       ELSE /\ hi' = hi - 1
            /\ index' = hi - 1
            /\ pc' = IF hi > Len(libs) THEN "panic"
                     ELSE IF should_reload(file_path, libs[hi])
                          THEN "before" ELSE "scan"
    /\ UNCHANGED <<libs, config, watch_recv, watched, watch_failed, clock,
                   next_id, events, file_path, loaded, log, ev_no, libs0,
                   last_add, n_adds, n_sent, copy_vars,
                   resolve, n_done,
                   ref_vars>>

\* a mutant of reload_lib: the entry is removed before Before is delivered
M_CallBefore ==
    /\ pc = "before"
    /\ libs' = remove_lib(libs, index)
    /\ log' = Append(log, [Callback("Before", libs[index + 1], NoErr)
                           EXCEPT !.libs = remove_lib(libs, index)])
    /\ pc' = "load"
    /\ unloaded' = IF libs[index + 1].id \in host
                 THEN unloaded ELSE unloaded \cup {libs[index + 1].id}
    /\ UNCHANGED <<config, watch_recv, watched, watch_failed, clock,
                   next_id, loop_vars, last_add, n_adds, n_sent, copy_vars,
                   resolve, n_done,
                   added, host, reload_failed>>

\* reload_lib: update_call(data, UpdateState::Before, Some(&self.libs[index]))
CallBefore ==
    /\ pc = "before"
    /\ log' = Append(log, Callback("Before", libs[index + 1], NoErr))
    /\ pc' = "remove"
    /\ UNCHANGED <<libs, config, watch_recv, watched, watch_failed, clock,
                   next_id, loop_vars, last_add, n_adds, n_sent, copy_vars,
                   resolve, n_done,
                   ref_vars>>

\* a mutant of remove_lib: the Library of the entry removed is closed whether
\* or not another handle to it is alive
M_RemoveLib ==
    /\ pc = "remove"
    /\ libs' = remove_lib(libs, index)
    /\ pc' = "load"
    /\ unloaded' = unloaded \cup {libs[index + 1].id}
    /\ UNCHANGED <<config, watch_recv, watched, watch_failed, clock, next_id,
                   loop_vars, log, last_add, n_adds, n_sent, copy_vars,
                   resolve, n_done,
                   added, host, reload_failed>>

\* reload_lib: self.remove_lib(index)
RemoveLib ==
    /\ pc = "remove"
    /\ libs' = remove_lib(libs, index)
    /\ pc' = "load"
    /\ unloaded' = IF libs[index + 1].id \in host
                 THEN unloaded ELSE unloaded \cup {libs[index + 1].id}
    /\ UNCHANGED <<config, watch_recv, watched, watch_failed, clock, next_id,
                   loop_vars, log, last_add, n_adds, n_sent, copy_vars,
                   resolve, n_done,
                   added, host, reload_failed>>

\* reload_lib: match Self::load_library(self, file_path)
reload_load(obs, valid, ts) ==
    LET r == load_library(shadow_dir, file_path, obs, valid, ts, next_id)
    IN  /\ pc = "load"
        /\ loaded' = r
        /\ next_id' = IF r.ok THEN next_id + 1 ELSE next_id
        /\ clock' = IF shadow_dir # NoDir THEN ts ELSE clock
        /\ pc' = IF r.ok THEN "push" ELSE "failed"
        /\ added' = IF r.ok THEN Append(added, added[log[Len(log)].lib.id])
                       ELSE added
        /\ UNCHANGED <<libs, config, watch_recv, watched, watch_failed,
                       events, file_path, hi, index, log, ev_no, libs0,
                       last_add, n_adds, n_sent, copy_vars,
                   resolve, n_done,
                   host, unloaded, reload_failed>>

LoadLibrary ==
    \E obs \in ObsChoices, valid \in BOOLEAN, ts \in ClockChoices :
        reload_load(obs, valid, ts)

\* a mutant of reload_lib: the new handle is inserted at the front of the
\* registry
M_PushLib_front ==
    /\ pc = "push"
    /\ libs' = <<loaded.lib>> \o libs
    /\ pc' = "after"
    /\ UNCHANGED <<config, watch_recv, watched, watch_failed, clock, next_id,
                   loop_vars, log, last_add, n_adds, n_sent, copy_vars,
                   resolve, n_done, ref_vars>>

\* a mutant of reload_lib: the new handle is not put into the registry
M_PushLib ==
    /\ pc = "push"
    /\ pc' = "after"
    /\ UNCHANGED <<libs, config, watch_recv, watched, watch_failed, clock,
                   next_id, loop_vars, log, last_add, n_adds, n_sent, copy_vars,
                   resolve, n_done,
                   ref_vars>>

\* reload_lib, Ok(lib): self.libs.push(lib.clone())
PushLib ==
    /\ pc = "push"
    /\ libs' = Append(libs, loaded.lib)
    /\ pc' = "after"
    /\ UNCHANGED <<config, watch_recv, watched, watch_failed, clock, next_id,
                   loop_vars, log, last_add, n_adds, n_sent, copy_vars,
                   resolve, n_done,
                   ref_vars>>

\* reload_lib, Ok(lib): update_call(data, UpdateState::After, Some(&lib))
CallAfter ==
    /\ pc = "after"
    /\ log' = Append(log, Callback("After", loaded.lib, NoErr))
    /\ pc' = "scan"
    /\ loaded' = Err(NoErr)
    /\ index' = 0
    /\ UNCHANGED <<libs, config, watch_recv, watched, watch_failed, clock,
                   next_id, events, file_path, hi, ev_no, libs0, last_add,
                   n_adds, n_sent, copy_vars,
                   resolve, n_done,
                   ref_vars>>

\* a mutant of reload_lib's Err arm: the error is dropped and no callback is
\* made
M_CallReloadFailed ==
    /\ pc = "failed"
    /\ pc' = "scan"
    /\ loaded' = Err(NoErr)
    /\ index' = 0
    /\ UNCHANGED <<libs, config, watch_recv, watched, watch_failed, clock,
                   next_id, events, file_path, hi, ev_no, libs0, log, last_add,
                   n_adds, n_sent, copy_vars, resolve, n_done, ref_vars>>

\* a mutant of reload_lib's Err arm: the entry removed is put back, so that
\* the next event for the file tries again
M_CallReloadFailed_restore ==
    /\ pc = "failed"
    /\ log' = Append(log, Callback("ReloadFailed", NoLib, loaded.err))
    /\ libs' = Append(libs, log[Len(log)].lib)
    /\ pc' = "scan"
    /\ loaded' = Err(NoErr)
    /\ index' = 0
    /\ reload_failed' = reload_failed \cup {log[Len(log)].lib.id}
    /\ UNCHANGED <<config, watch_recv, watched, watch_failed, clock,
                   next_id, events, file_path, hi, ev_no, libs0, last_add,
                   n_adds, n_sent, copy_vars, resolve, n_done,
                   added, host, unloaded>>

\* reload_lib, Err(err): update_call(data, UpdateState::ReloadFailed(err), None)
CallReloadFailed ==
    /\ pc = "failed"
    /\ log' = Append(log, Callback("ReloadFailed", NoLib, loaded.err))
    /\ pc' = "scan"
    /\ loaded' = Err(NoErr)
    /\ index' = 0
    /\ reload_failed' = reload_failed \cup {log[Len(log)].lib.id}
    /\ UNCHANGED <<libs, config, watch_recv, watched, watch_failed, clock,
                   next_id, events, file_path, hi, ev_no, libs0, last_add,
                   n_adds, n_sent, copy_vars,
                   resolve, n_done,
                   added, host, unloaded>>

(* ------------------------- the watcher thread ------------------------- *)
\* the paths a change event can name: the files of the watched directories
EventPaths == {join(d, n) : d \in watched, n \in FileNames}

\* a debounced batch: one event, or two events for different paths
Batches ==
    {<<p>> : p \in EventPaths}
    \cup {<<pq[1], pq[2]>> : pq \in {x \in EventPaths \X EventPaths : x[1] # x[2]}}

\* the debouncer sends Ok(events) on the channel
SendEvents ==
    /\ watcher
    /\ \E b \in Batches :
        /\ n_sent + Len(b) <= MaxEvents
        /\ n_sent' = n_sent + Len(b)
        /\ watch_recv' = Append(watch_recv, [ok |-> TRUE, events |-> b])
    /\ UNCHANGED <<libs, config, watched, watch_failed, clock, next_id, pc,
                   loop_vars, log, last_add, n_adds, copy_vars,
                   resolve, n_done,
                   ref_vars>>

\* the debouncer sends Err(error) on the channel
SendError ==
    /\ watcher
    /\ n_sent < MaxEvents
    /\ n_sent' = n_sent + 1
    /\ watch_recv' = Append(watch_recv, [ok |-> FALSE, events |-> <<>>])
    /\ UNCHANGED <<libs, config, watched, watch_failed, clock, next_id, pc,
                   loop_vars, log, last_add, n_adds, copy_vars,
                   resolve, n_done,
                   ref_vars>>

Next ==
    \/ AddLibrarySearch
    \/ AddLibraryLoad
    \/ AddLibraryRegister
    \/ Update
    \/ TryRecv
    \/ NextEvent
    \/ Scan
    \/ CallBefore
    \/ RemoveLib
    \/ LoadLibrary
    \/ PushLib
    \/ CallAfter
    \/ CallReloadFailed
    \/ SendEvents
    \/ SendError

Spec == Init /\ [][Next]_vars

\* the steps of the host thread inside add_library and update, and the call
\* of update
HostStep ==
    \/ AddLibraryLoad
    \/ AddLibraryRegister
    \/ Update
    \/ TryRecv
    \/ NextEvent
    \/ Scan
    \/ CallBefore
    \/ RemoveLib
    \/ LoadLibrary
    \/ PushLib
    \/ CallAfter
    \/ CallReloadFailed

\* the host thread runs, and it keeps calling update
SpecLive == Init /\ [][Next]_vars /\ WF_vars(HostStep)

(* ------------------------- try_copy on its own ------------------------ *)
\* try_copy is entered
InitCopy ==
    /\ libs = <<>>
    /\ watcher = TRUE
    /\ shadow_dir = ShadowRoot
    /\ search_paths = <<"/sp">>
    /\ watch_recv = <<>>
    /\ watched = {}
    /\ watch_failed = {}
    /\ clock = 0
    /\ next_id = 1
    /\ pc = "try_copy"
    /\ events = <<>>
    /\ file_path = NoPath
    /\ hi = 0
    /\ index = 0
    /\ loaded = Err(NoErr)
    /\ log = <<>>
    /\ ev_no = 0
    /\ libs0 = <<>>
    /\ last_add = NoCall
    /\ n_adds = 0
    /\ n_sent = 0
    /\ tc = TcStart
    /\ seen = NoSeen
    /\ resolve = NoResolve
    /\ n_done = 0
    /\ added = <<>>
    /\ host = {}
    /\ unloaded = {}
    /\ reload_failed = {}

\* one pass of the loop, meeting any of the outcomes
CopyAttempt ==
    /\ pc = "try_copy"
    /\ tc.result = "running"
    /\ \E ob \in Outcomes :
        /\ tc' = TryCopyAttempt(tc, ob)
        /\ seen' = [seen EXCEPT ![ob] = @ + 1]
    /\ UNCHANGED <<libs, config, watch_recv, watched, watch_failed, clock,
                   next_id, pc, loop_vars, log, last_add, n_adds, n_sent,
                   resolve, n_done,
                   ref_vars>>

NextCopy == CopyAttempt

\* the loop runs on the calling thread: it is not suspended for ever
SpecCopy == InitCopy /\ [][NextCopy]_vars /\ WF_vars(NextCopy)

(* ------------------------ search_dirs on its own ---------------------- *)
\* the search path lists DynamicReload::new may be given
SearchPathChoices == {<<>>, <<"/sp">>, <<"/sp", "/">>, <<"/", "/sp">>}

\* DynamicReload::new(search_paths, _, search, _), and a file system
InitSearch ==
    /\ libs = <<>>
    /\ watcher = TRUE
    /\ shadow_dir = NoDir
    /\ search_paths \in SearchPathChoices
    /\ watch_recv = <<>>
    /\ watched = {}
    /\ watch_failed = {}
    /\ clock = 0
    /\ next_id = 1
    /\ pc = "search_dirs"
    /\ events = <<>>
    /\ file_path = NoPath
    /\ hi = 0
    /\ index = 0
    /\ loaded = Err(NoErr)
    /\ log = <<>>
    /\ ev_no = 0
    /\ libs0 = <<>>
    /\ last_add = NoCall
    /\ n_adds = 0
    /\ n_sent = 0
    /\ tc = TcIdle
    /\ seen = NoSeen
    /\ n_done = 0
    /\ added = <<>>
    /\ host = {}
    /\ unloaded = {}
    /\ reload_failed = {}
    /\ resolve \in {[called |-> TRUE, done |-> FALSE, search |-> sm, fs |-> fs,
                      name |-> n, name_format |-> nf, result |-> NoPath] :
                         sm \in SearchModes, fs \in [Dirs -> FileKinds],
                         n \in LibNames, nf \in PlatformNames}

\* self.search_dirs(name, name_format); the search setting is not among
\* the fields DynamicReload::new keeps
SearchDirs ==
    /\ pc = "search_dirs"
    /\ ~resolve.done
    /\ resolve' = [resolve EXCEPT
                       !.done = TRUE,
                       !.result = search_dirs(resolve.fs, search_paths,
                                              resolve.name, resolve.name_format)]
    /\ UNCHANGED <<libs, config, watch_recv, watched, watch_failed, clock,
                   next_id, pc, loop_vars, log, last_add, n_adds, n_sent,
                   copy_vars, n_done,
                   ref_vars>>

NextSearch == SearchDirs

SpecSearch == InitSearch /\ [][NextSearch]_vars


(* ------------------- the handles the host keeps --------------------- *)
\* a reloader with a watcher and a shadow directory, and no library yet
InitArc ==
    /\ Init
    /\ watcher
    /\ shadow_dir = ShadowRoot

\* update_call is given &Arc<Lib>: inside Before (the entry about to be
\* removed) or After (the entry just pushed) the host clones the handle
HostClone ==
    /\ log # <<>>
    /\ \/ pc = "remove" /\ log[Len(log)].state = "Before"
       \/ pc = "scan" /\ log[Len(log)].state = "After"
    /\ log[Len(log)].lib.id \notin host
    /\ host' = host \cup {log[Len(log)].lib.id}
    /\ UNCHANGED <<libs, config, watch_recv, watched, watch_failed, clock,
                   next_id, pc, loop_vars, log, last_add, n_adds, n_sent,
                   copy_vars, resolve, n_done, added, unloaded, reload_failed>>

\* between two calls the host drops a handle it holds; the Lib, and with it
\* the Library, is dropped when this was the last Arc
HostDrop ==
    /\ pc = "idle"
    /\ \E id \in host :
        /\ host' = host \ {id}
        /\ unloaded' = IF \E j \in DOMAIN libs : libs[j].id = id
                       THEN unloaded ELSE unloaded \cup {id}
    /\ UNCHANGED <<libs, config, watch_recv, watched, watch_failed, clock,
                   next_id, pc, loop_vars, log, last_add, n_adds, n_sent,
                   copy_vars, resolve, n_done, added, reload_failed>>

\* the library's file is in the search path only
ArcFiles == [d \in Dirs |-> IF d = "/sp" THEN "file" ELSE "absent"]

\* the staging copies at its first pass; the loader may refuse the file
NextArc ==
    \/ \E name \in LibNames, name_format \in PlatformNames :
        add_search(name, name_format, ArcFiles)
    \/ \E valid \in BOOLEAN : add_load(ObsOk, valid, clock)
    \/ add_register(FALSE)
    \/ Update
    \/ TryRecv
    \/ NextEvent
    \/ Scan
    \/ CallBefore
    \/ RemoveLib
    \/ \E valid \in BOOLEAN : reload_load(ObsOk, valid, clock)
    \/ PushLib
    \/ CallAfter
    \/ CallReloadFailed
    \/ SendEvents
    \/ SendError
    \/ HostClone
    \/ HostDrop

SpecArc == InitArc /\ [][NextArc]_vars

(* ------------------------------- claims ------------------------------- *)
Last(s) == s[Len(s)]

\* the handling of an event has just ended: file_path, libs0 and ev_no are
\* still those of that event
EventDone == pc = "for_event" /\ file_path # NoPath

\* the event matches the entry, as the claims word it
Matches(l) ==
    /\ l.original_path # NoPath
    /\ l.original_path.name = file_path.name

BeforesOf(l) ==
    {k \in DOMAIN log :
        log[k].ev = ev_no /\ log[k].state = "Before" /\ log[k].lib = l}

\* a reload is between its Before and its After or ReloadFailed
InReload == pc \in {"remove", "load", "push", "after", "failed"}

\* C1: the callbacks come in pairs, a Before and then one After or one
\* ReloadFailed of the same event, and when the handling of an event ends
\* every entry the registry held when it began, with an original_path whose
\* file name is the event's, has had exactly one Before.
C1_BeforeThenOutcome ==
    /\ \A k \in DOMAIN log :
        IF k % 2 = 1
        THEN log[k].state = "Before"
        ELSE /\ log[k].state \in {"After", "ReloadFailed"}
             /\ log[k].ev = log[k - 1].ev
    /\ Len(log) % 2 = (IF InReload THEN 1 ELSE 0)
    /\ EventDone =>
        \A j \in DOMAIN libs0 :
            Matches(libs0[j]) => Cardinality(BeforesOf(libs0[j])) = 1

\* an event that matched two entries has been handled, one reload
\* succeeded and one failed
C1_Witness ==
    /\ EventDone
    /\ Len(libs0) = 2
    /\ \A j \in DOMAIN libs0 : Matches(libs0[j])
    /\ \E k \in DOMAIN log : log[k].state = "After"
    /\ \E k \in DOMAIN log : log[k].state = "ReloadFailed"

C2_Inv ==
    /\ \A k \in DOMAIN log :
        log[k].state = "Before" => log[k].lib \in Range(log[k].libs)
    /\ pc = "remove" =>
        /\ log # <<>>
        /\ Last(log).state = "Before"
        /\ Last(log).libs = libs
        /\ Last(log).lib = libs[index + 1]

C2_Act ==
    (Range(libs) \ Range(libs') # {}) =>
        /\ pc = "remove"
        /\ log # <<>>
        /\ Last(log).state = "Before"
        /\ Range(libs) \ Range(libs') = {Last(log).lib}

\* C2: Before is called with a handle that is in the registry, the registry
\* being as it was when the entry was matched; and a step takes an entry out
\* of the registry only right after Before was delivered for that entry.
C2_BeforeSeesMember == [] C2_Inv /\ [][C2_Act]_vars

\* Before has been delivered for the first of two entries and the entry is
\* about to be removed
C2_Witness ==
    /\ pc = "remove"
    /\ Len(libs) = 2
    /\ index = 0
    /\ Last(log).lib = libs[1]

\* C3: After is called with the handle load_library returned, that handle
\* is then the last entry of the registry, and the handle Before was called
\* with is no longer in the registry.
C3_AfterCarriesNew ==
    /\ pc = "after" => loaded.ok /\ loaded.lib \in Range(libs)
    /\ \A k \in DOMAIN log :
        log[k].state = "After" =>
            /\ k > 1
            /\ log[k - 1].state = "Before"
            /\ log[k].libs # <<>>
            /\ log[k].lib = Last(log[k].libs)
            /\ log[k].lib.id # log[k - 1].lib.id
            /\ log[k - 1].lib \notin Range(log[k].libs)

\* After has been delivered for the reload of the first of two entries
C3_Witness ==
    /\ log # <<>>
    /\ Last(log).state = "After"
    /\ Len(Last(log).libs) = 2
    /\ Len(log) = 4

\* C4: ReloadFailed carries the error and no handle, the registry then is
\* what it was at Before less the entry, and when the handling of the event
\* ends no entry has the original_path of the library that failed.
C4_FailedLeavesNoEntry ==
    \A k \in DOMAIN log :
        log[k].state = "ReloadFailed" =>
            /\ k > 1
            /\ log[k].lib = NoLib
            /\ log[k].err.kind \in {"Load", "CopyTimeOut"}
            /\ Range(log[k].libs) = Range(log[k - 1].libs) \ {log[k - 1].lib}
            /\ (EventDone /\ log[k].ev = ev_no) =>
                \A l \in Range(libs) :
                    l.original_path # log[k - 1].lib.original_path

\* C5: the entry a reload puts into the registry has the original_path of
\* the entry it replaces.
C5_ReloadKeepsOriginalPath ==
    \A k \in DOMAIN log :
        (log[k].state = "After" /\ k > 1) =>
            log[k].lib.original_path = log[k - 1].lib.original_path

\* C6: no two entries of the registry have the same original_path.
C6_OnePerOriginalPath ==
    \A j, k \in DOMAIN libs :
        (j # k /\ libs[j].original_path # NoPath) =>
            libs[j].original_path # libs[k].original_path

Staged(call) == \E j \in DOMAIN call.obs : call.obs[j] = "ok"

\* C8: add_library returns Find exactly when no directory of the search
\* order holds the file, it returns Load when the loader is reached and
\* rejects the file, and when it has returned an error the registry and
\* the watched directories are those of before the call.
C8_AddErrors ==
    (last_add.called /\ last_add.done) =>
        /\ (last_add.result.err = ErrFind(last_add.name)) <=> ~last_add.found
        /\ (last_add.found /\ Staged(last_add) /\ ~last_add.valid) =>
               last_add.result.err = ErrLoad
        /\ last_add.result.err.kind = "Load" => ~last_add.valid
        /\ (~last_add.result.ok /\ pc = "idle") =>
               (libs = last_add.libs /\ watched = last_add.watched)

\* add_library has returned Load to a host that has a library registered
C8_Witness ==
    /\ pc = "idle"
    /\ last_add.done
    /\ last_add.result.err.kind = "Load"
    /\ libs # <<>>
    /\ watched # {}

\* staging met a failing fs::copy before any copy that succeeded
HitCopyError(call) ==
    /\ shadow_dir # NoDir
    /\ call.path # NoPath
    /\ \E j \in DOMAIN call.obs :
        /\ call.obs[j] = "copyfail"
        /\ \A i \in 1..(j - 1) : call.obs[i] # "ok"

Passes == seen["nometa"] + seen["empty"] + seen["copyfail"] + seen["ok"]

C10_Inv ==
    /\ tc.copies = seen["copyfail"] + seen["ok"]
    /\ Passes <= CopyAttempts
    /\ tc.sleeps = seen["nometa"] + seen["empty"] + seen["copyfail"]
    /\ tc.sleeps = tc.attempt
    /\ seen["ok"] <= 1
    /\ (tc.result = "Ok") <=> (seen["ok"] = 1)
    /\ (tc.result = "CopyTimeOut") <=> (seen["ok"] = 0 /\ Passes = CopyAttempts)
    /\ tc.result \in {"running", "Ok", "CopyTimeOut"}

\* C10: fs::copy is called on the passes that find a non-zero size and on
\* no other, there are at most CopyAttempts passes with a sleep after each
\* that did not copy, the result is Ok as soon as a pass copies and
\* CopyTimeOut exactly when CopyAttempts passes did not, and the loop ends.
C10_BoundedRetry == [] C10_Inv /\ <>(tc.result # "running")

\* the loop gave up after passes that found no file, an empty one and a
\* failing copy
C10_Witness ==
    /\ tc.result = "CopyTimeOut"
    /\ seen["nometa"] > 0
    /\ seen["empty"] > 0
    /\ seen["copyfail"] > 0

\* C11: when add_library has returned Ok, the registry is what it was before
\* the call with one entry appended, that entry is the handle returned (the
\* same allocation), and with a shadow directory the handle's original_path
\* is the path the search found and its loaded_path is in the shadow
\* directory.
C11_AddRegistersReturned ==
    (last_add.done /\ last_add.result.ok) =>
        /\ libs = Append(last_add.libs, last_add.result.lib)
        /\ Last(libs).id = last_add.result.lib.id
        /\ shadow_dir # NoDir =>
            /\ last_add.result.lib.original_path = last_add.path
            /\ parent(last_add.result.lib.loaded_path) = shadow_dir

\* a second add_library has returned Ok with a shadow directory configured
C11_Witness ==
    /\ last_add.done
    /\ last_add.result.ok
    /\ shadow_dir # NoDir
    /\ Len(libs) = 2

\* the paths a library file can be found at or be reported changed at
SourcePaths == {join(d, n) : d \in Dirs \cup {ShadowRoot}, n \in FileNames}

\* the handles the program holds: the registry's, the one a reload has just
\* loaded and the one add_library has just returned
Handles ==
    Range(libs)
    \cup (IF loaded.ok THEN {loaded.lib} ELSE {})
    \cup (IF last_add.result.ok THEN {last_add.result.lib} ELSE {})

\* C12: with a shadow directory the path given to the loader (the handle's
\* loaded_path) is never the source path, for the load add_library makes,
\* for the load a reload makes and for any source path; with no shadow
\* directory it is the source path and original_path is None.
C12_LoaderPath ==
    /\ \A l \in Handles :
        IF shadow_dir # NoDir
        THEN l.original_path # NoPath /\ l.loaded_path # l.original_path
        ELSE l.original_path = NoPath
    /\ last_add.result.ok =>
        (last_add.result.lib.loaded_path = last_add.path) <=> (shadow_dir = NoDir)
    /\ loaded.ok =>
        (loaded.lib.loaded_path = file_path) <=> (shadow_dir = NoDir)
    /\ \A src \in SourcePaths, ts \in 0..MaxClock :
        LET r == load_library(shadow_dir, src, ObsOk, TRUE, ts, next_id)
        IN  /\ r.ok
            /\ (r.lib.loaded_path = src) <=> (shadow_dir = NoDir)
            /\ (r.lib.original_path = NoPath) <=> (shadow_dir = NoDir)

\* a reload has loaded the library anew with a shadow directory configured
C12_Witness ==
    /\ shadow_dir # NoDir
    /\ pc = "after"
    /\ loaded.ok
    /\ loaded.lib.loaded_path # file_path
    /\ parent(loaded.lib.loaded_path) = shadow_dir

C13_Inv ==
    shadow_dir = NoDir =>
        /\ \A l \in Handles : l.original_path = NoPath
        /\ \A l \in Range(libs), p \in SourcePaths : ~should_reload(p, l)
        /\ log = <<>>
        /\ pc \notin {"before", "remove", "load", "push", "after", "failed"}

C13_Act == shadow_dir = NoDir => SubSeq(libs', 1, Len(libs)) = libs

\* C13: with no shadow directory every handle has original_path None, no
\* changed path makes should_reload accept an entry of the registry, update
\* makes no callback and starts no reload, and no step takes an entry out
\* of the registry or moves it.
C13_NeverReloaded == [] C13_Inv /\ [][C13_Act]_vars

\* with no shadow directory and two libraries registered, update has taken
\* a message from the channel
C13_Witness ==
    /\ shadow_dir = NoDir
    /\ Len(libs) = 2
    /\ pc = "recv"
    /\ n_done > 0

\* a directory and the directories above it, nearest first
RECURSIVE UpFrom(_)
UpFrom(d) == IF d = NoDir THEN <<>> ELSE <<d>> \o UpFrom(DirParent(d))

\* the order of the search as the claim gives it
SearchOrder == <<Cwd>> \o search_paths \o UpFrom(parent(ExePath))

\* the places of the order that hold the wanted name as a regular file
Hits == {k \in DOMAIN SearchOrder : resolve.fs[SearchOrder[k]] = "file"}

C15_DefaultStaysInExeDir ==
    (resolve.done /\ resolve.search = "Default"
        /\ resolve.result # NoPath
        /\ parent(resolve.result) \notin ({Cwd} \cup Range(search_paths))) =>
            parent(resolve.result) = parent(ExePath)

\* C16: two handles are equal exactly when their original_path values are,
\* whatever their loaded_path and their allocation; a handle equals its
\* clone; and with a shadow directory two handles whose source files differ
\* are unequal.
C16_EqByOriginalPath ==
    /\ \A a, b \in Handles :
        /\ eq(a, b) <=> (a.original_path = b.original_path)
        /\ (shadow_dir # NoDir /\ a.original_path # b.original_path) => ~eq(a, b)
    /\ \A a \in Handles :
        /\ eq(a, a)
        /\ \A lp \in SourcePaths, id \in 1..next_id :
            eq(a, [a EXCEPT !.loaded_path = lp, !.id = id])

\* the registry holds two libraries added from different source files with
\* a shadow directory, and they are unequal
C16_Witness ==
    /\ shadow_dir # NoDir
    /\ Len(libs) = 2
    /\ libs[1].original_path # libs[2].original_path
    /\ ~eq(libs[1], libs[2])
    /\ eq(libs[1], last_add.libs[1])

\* the file a handle was loaded from: its original_path, or with no shadow
\* directory its loaded_path
SourceOf(l) == IF l.original_path # NoPath THEN l.original_path ELSE l.loaded_path

\* C17: two handles loaded from different source files are unequal, with
\* or without a shadow directory.
C17_DifferentSourcesUnequal ==
    \A a, b \in Handles : SourceOf(a) # SourceOf(b) => ~eq(a, b)

\* the host is inside update
InUpdate ==
    pc \in {"recv", "for_event", "scan", "before", "remove", "load", "push",
            "after", "failed"}

C18_Inv ==
    /\ pc = "recv" => ENABLED TryRecv
    /\ (pc = "recv" /\ ev_no = 0) => log = <<>>

C18_Act ==
    /\ (pc = "recv" /\ pc' # "recv") =>
        IF watch_recv = <<>>
        THEN pc' = "idle" /\ libs' = libs /\ log' = log
        ELSE /\ pc' = "for_event"
             /\ Head(watch_recv).ok
             /\ events' = Head(watch_recv).events
             /\ watch_recv' = Tail(watch_recv)
    /\ (InUpdate /\ pc' = "idle") => (pc = "recv" /\ watch_recv = <<>>)
    /\ watch_recv' # watch_recv =>
        \/ pc = "recv" /\ watch_recv # <<>> /\ watch_recv' = Tail(watch_recv)
        \/ /\ Len(watch_recv') = Len(watch_recv) + 1
           /\ SubSeq(watch_recv', 1, Len(watch_recv)) = watch_recv
    /\ events' # events =>
        \/ pc = "recv" /\ events = <<>> /\ events' = Head(watch_recv).events
        \/ /\ pc = "for_event"
           /\ events' = Tail(events)
           /\ file_path' = Head(events)
           /\ pc' = "scan"

\* C18: the receive of update is never disabled; update takes the messages
\* from the head of the channel and the events of a batch from its head,
\* one after the other; it returns only from a receive that finds the
\* channel empty, and that step changes neither the registry nor the
\* callbacks made, none having been made if no event was handled.
C18_UpdateDrains == [] C18_Inv /\ [][C18_Act]_vars

\* update has handled the event of a first batch, with callbacks, and a
\* second batch waits in the channel
C18_Witness ==
    /\ pc = "recv"
    /\ ev_no = 1
    /\ log # <<>>
    /\ watch_recv # <<>>
    /\ Head(watch_recv).ok

\* what the messages of a channel amount to: an Ok batch counts by its
\* events, an Err as one
RECURSIVE InFlight(_)
InFlight(q) ==
    IF q = <<>> THEN 0
    ELSE (IF Head(q).ok THEN Len(Head(q).events) ELSE 1) + InFlight(Tail(q))

\* the events of the Ok batches of a channel, in order
RECURSIVE QueuedEvents(_)
QueuedEvents(q) ==
    IF q = <<>> THEN <<>>
    ELSE (IF Head(q).ok THEN Head(q).events ELSE <<>>) \o QueuedEvents(Tail(q))

\* the channel holds, as the e-th event the next update call will handle, a
\* change of the file of an entry of the registry
ChangeQueued(e) ==
    /\ pc = "idle"
    /\ e <= Len(QueuedEvents(watch_recv))
    /\ \E l \in Range(libs) : should_reload(QueuedEvents(watch_recv)[e], l)

\* update has come to its e-th event, and it is a change of the file of an
\* entry of the registry
ChangeTaken(e) ==
    /\ pc = "scan"
    /\ ev_no = e
    /\ hi = Len(libs0)
    /\ \E l \in Range(libs0) : should_reload(file_path, l)

\* Before has been called for the e-th event of the update call
BeforeCalled(e) ==
    \E k \in DOMAIN log : log[k].state = "Before" /\ log[k].ev = e

\* every message sent is in the channel, in the batch being handled, or
\* has been dealt with once
C19_Inv == n_sent = n_done + Len(events) + InFlight(watch_recv)

\* C19 as stated: a change of the file of a library that is in the registry
\* when the change is queued yields a Before callback when update comes to
\* the event.
C19_ChangeYieldsBefore ==
    \A e \in 1..MaxEvents : ChangeQueued(e) ~> BeforeCalled(e)

\* C19 as amended: no message is lost or handled twice, every message sent
\* is dealt with in the end, and a change yields a Before callback when an
\* entry matches at the time update comes to the event.
C19_NoEventLost ==
    /\ [] C19_Inv
    /\ []<>(n_done = n_sent)
    /\ \A e \in 1..MaxEvents : ChangeTaken(e) ~> BeforeCalled(e)

\* the second event the watcher sent has been taken by update and has
\* matched an entry, while the first was handled before it
C19_Witness ==
    /\ pc = "before"
    /\ n_sent = 2
    /\ n_done = 2
    /\ ev_no = 2
    /\ Len(log) = 2

C20_Inv ==
    ~watcher =>
        /\ watch_recv = <<>>
        /\ watched = {}
        /\ log = <<>>
        /\ pc \in {"idle", "add_load", "add_register", "recv"}
        /\ (last_add.called /\ last_add.done) =>
            IF last_add.path = NoPath
            THEN ~last_add.found /\ last_add.result = Err(ErrFind(last_add.name))
            ELSE /\ last_add.result =
                        load_library(shadow_dir, last_add.path, last_add.obs,
                                     last_add.valid, clock,
                                     last_add.result.lib.id)
                 /\ last_add.result.ok =>
                        libs = Append(last_add.libs, last_add.result.lib)

C20_Act ==
    (~watcher /\ InUpdate /\ pc' # pc) =>
        (pc' = "idle" /\ libs' = libs /\ log' = log)

\* C20: with no watcher, add_library returns what the search and
\* load_library give (neither looks at the watcher) and registers the
\* library it loaded; the channel is empty, and update returns from its
\* first receive with no callback made and the registry as it was.
C20_LoadOnly == [] C20_Inv /\ [][C20_Act]_vars

\* with no watcher and a shadow directory, two libraries were registered
\* and update has been called since and has returned
C20_Witness ==
    /\ ~watcher
    /\ shadow_dir # NoDir
    /\ Len(libs) = 2
    /\ pc = "idle"
    /\ last_add = NoCall

\* C21: the handle a reload loads has a loaded_path other than that of the
\* handle it replaces.
C21_FreshStagedPath ==
    \A k \in DOMAIN log :
        (log[k].state = "After" /\ k > 1) =>
            log[k].lib.loaded_path # log[k - 1].lib.loaded_path

\* the event is over and these entries of the registry it began with had a
\* Before
Reloaded == {j \in DOMAIN libs0 : BeforesOf(libs0[j]) # {}}

C22_Inv ==
    /\ \A l \in Handles, p \in SourcePaths \cup {m.loaded_path : m \in Handles} :
        should_reload(p, l) <=>
            (l.original_path # NoPath
                /\ file_name(p) = file_name(l.original_path))
    /\ EventDone =>
        /\ \A j \in DOMAIN libs0 : (j \in Reloaded) <=> Matches(libs0[j])
        /\ \A k \in DOMAIN log :
            (log[k].ev = ev_no /\ log[k].state = "Before") =>
                \E j \in DOMAIN libs0 : libs0[j] = log[k].lib

C22_Act ==
    (pc = "scan" /\ hi > 0 /\ pc' # pc) =>
        (pc' = "before") <=> Matches(libs[hi])

\* C22: should_reload accepts an entry exactly when it has an original_path
\* whose file name is that of the changed path, whatever the directories;
\* the scan goes on to a reload exactly for such an entry; and when the
\* event is over the entries that had a Before are the entries the registry
\* began with whose file name is the event's, wherever they lie.
C22_MatchByFileName == [] C22_Inv /\ [][C22_Act]_vars

\* one event has reloaded two entries that lie in different directories
C22_Witness ==
    /\ EventDone
    /\ Len(libs0) = 2
    /\ parent(libs0[1].original_path) # parent(libs0[2].original_path)
    /\ Reloaded = {1, 2}

\* C23: of two Before callbacks of one event, the earlier is for the library
\* whose add_library call came later.
C23_LatestAddedFirst ==
    \A k, k2 \in DOMAIN log :
        (k < k2 /\ log[k].ev = log[k2].ev
            /\ log[k].state = "Before" /\ log[k2].state = "Before") =>
                added[log[k].lib.id] > added[log[k2].lib.id]

\* the host is handling an event
InEvent ==
    pc \in {"scan", "before", "remove", "load", "push", "after", "failed"}

C24_Inv ==
    /\ pc # "panic"
    /\ InEvent =>
        /\ hi <= Len(libs)
        /\ hi <= Len(libs0)
        /\ SubSeq(libs, 1, hi) = SubSeq(libs0, 1, hi)
        /\ \A k \in DOMAIN log :
            (log[k].ev = ev_no /\ log[k].state = "Before") =>
                \E j \in (hi + 1)..Len(libs0) : libs0[j] = log[k].lib
    /\ pc \in {"before", "remove"} =>
        /\ index = hi
        /\ index < Len(libs)
        /\ libs[index + 1] = libs0[index + 1]

C24_Act ==
    (pc = "scan" /\ hi > 0 /\ pc' # pc) =>
        /\ hi' = hi - 1
        /\ hi <= Len(libs)
        /\ libs[hi] = libs0[hi]
        /\ pc' = "before" => index' = hi - 1

\* C24: the scan reads the registry only within its length; the entries
\* still to be examined are those the registry began the event with, at
\* their places, so that each step examines the next of them, once, and
\* never an entry a reload of this event has put in; and an entry is
\* reloaded only after it has been examined.
C24_ScanOnce == [] C24_Inv /\ [][C24_Act]_vars

\* a failed reload has made the registry shorter and the scan has an entry
\* left to examine
C24_Witness ==
    /\ pc = "scan"
    /\ hi = 1
    /\ Len(libs0) = 2
    /\ Len(libs) = 1
    /\ Last(log).state = "ReloadFailed"
    /\ Last(log).ev = ev_no

\* the callback that ends a reload has been made and the scan goes on
OutcomeCalled ==
    /\ pc = "scan"
    /\ log # <<>>
    /\ Last(log).state \in {"After", "ReloadFailed"}

C25_Inv ==
    pc \in {"idle", "recv", "for_event", "scan"} =>
        \A k \in DOMAIN log :
            log[k].state = "Before" =>
                /\ k < Len(log)
                /\ log[k + 1].state \in {"After", "ReloadFailed"}
                /\ log[k + 1].ev = log[k].ev

C25_Act == InReload => pc' \in {"remove", "load", "push", "after", "failed", "scan"}

\* C25: whenever update is between two reloads or has returned, every
\* Before it has called is followed by the After or the ReloadFailed of the
\* same event; update does not return from inside a reload; and a reload
\* that has called Before goes on to call After or ReloadFailed.
C25_ReloadCompletes ==
    /\ [] C25_Inv
    /\ [][C25_Act]_vars
    /\ (pc = "remove") ~> OutcomeCalled

\* update has returned from a call in which a reload failed because the
\* staging gave up
C25_Witness ==
    /\ pc = "idle"
    /\ Len(log) = 2
    /\ log[1].state = "Before"
    /\ log[2].state = "ReloadFailed"
    /\ log[2].err.kind = "CopyTimeOut"

\* the identities of the handles in the registry
RegistryIds == {libs[j].id : j \in DOMAIN libs}

\* the handles held by a local of the running add_library or reload_lib
LocalIds ==
    (IF pc = "push" THEN {loaded.lib.id} ELSE {})
    \cup (IF pc = "add_register" THEN {last_add.result.lib.id} ELSE {})

C26_Inv ==
    /\ unloaded \cap (RegistryIds \cup host) = {}
    /\ unloaded = (1..(next_id - 1)) \ (RegistryIds \cup host \cup LocalIds)

C26_Act ==
    \A id \in host \cap RegistryIds :
        id \notin {libs'[j].id : j \in DOMAIN libs'} =>
            id \in host' /\ id \notin unloaded'

\* C26: a library is unloaded only when neither the registry nor the host
\* holds its handle (and is unloaded once no handle is left); the step that
\* removes from the registry an entry whose handle the host holds leaves
\* that handle with the host and its library loaded.
C26_UnloadAtLastRelease == [] C26_Inv /\ [][C26_Act]_vars

\* update has returned after replacing an entry whose handle the host still
\* holds: the old handle is out of the registry and not unloaded, the new
\* one is in the registry, while some other library has been unloaded
C26_Witness ==
    /\ pc = "idle"
    /\ unloaded # {}
    /\ \E k \in DOMAIN log :
        /\ log[k].state = "Before"
        /\ k < Len(log)
        /\ log[k + 1].state = "After"
        /\ log[k].lib.id \in host
        /\ log[k].lib.id \notin RegistryIds
        /\ log[k].lib.id \notin unloaded
        /\ log[k + 1].lib.id \in RegistryIds

\* the callbacks of the running update that ended a reload with ReloadFailed
Failures == {k \in DOMAIN log : k > 1 /\ log[k].state = "ReloadFailed"}

\* C27 as worded: after a reload ended with ReloadFailed, no later event of
\* the same update call (no add_library can come in between) that names a
\* file of that library's name gets a callback.
C27_NoCallbackAfterFailure ==
    \A k \in Failures : \A k2 \in DOMAIN log :
        (k2 > k /\ log[k2].ev > log[k].ev /\ log[k2].state = "Before") =>
            log[k2].lib.original_path.name # log[k - 1].lib.original_path.name

C27_Inv ==
    /\ reload_failed \cap RegistryIds = {}
    /\ \A k \in DOMAIN log :
        (log[k].state = "Before" /\ log[k].lib.id \in reload_failed) =>
            /\ k < Len(log)
            /\ log[k + 1].state = "ReloadFailed"
            /\ \A k2 \in DOMAIN log : k2 > k => log[k2].lib.id # log[k].lib.id
    /\ (/\ EventDone
        /\ \E k \in Failures :
            /\ log[k].ev < ev_no
            /\ log[k - 1].lib.original_path.name = file_path.name
        /\ \A j \in DOMAIN libs0 : ~Matches(libs0[j]))
       => /\ libs = libs0
          /\ \A k \in DOMAIN log : log[k].ev # ev_no

C27_Act ==
    /\ watched \subseteq watched'
    /\ \A j \in DOMAIN libs' : libs'[j].id \in reload_failed' => libs'[j].id \in RegistryIds

\* C27, amended: a handle whose reload ended with ReloadFailed is out of the
\* registry and never comes back, and no callback is made for it after the
\* ReloadFailed; a later event for a file of its name, when no
\* entry left in the registry has that file name, gets no callback and
\* leaves the registry as it is; the watched directories never shrink.
C27_NoRetryOfFailedEntry == [] C27_Inv /\ [][C27_Act]_vars

\* one update call: the reload of the only entry failed, and a later event
\* for the same file has been handled with no callback
C27_Witness ==
    /\ EventDone
    /\ ev_no = 2
    /\ Len(log) = 2
    /\ log[2].state = "ReloadFailed"
    /\ log[1].lib.original_path = file_path
    /\ log[1].lib.id \in reload_failed
    /\ libs = <<>>
    /\ libs0 = <<>>
    /\ parent(file_path) \in watched

\* the next message update takes from the channel is an error result
ErrorNext == pc = "recv" /\ watch_recv # <<>> /\ ~Head(watch_recv).ok

C28_Inv ==
    /\ (EventDone /\ \A j \in DOMAIN libs0 : ~Matches(libs0[j])) =>
           /\ libs = libs0
           /\ \A k \in DOMAIN log : log[k].ev # ev_no
    /\ ev_no = 0 => log = <<>>

C28_Act ==
    /\ ErrorNext =>
           /\ libs' = libs
           /\ log' = log
           /\ watched' = watched
           /\ ev_no' = ev_no
           /\ pc' = "recv"
    /\ InUpdate => watched' = watched

\* C28: when update has handled an event whose file name is that of no
\* registered library, the registry is the same sequence as when the event
\* was taken and no callback was made for the event; an update call that has
\* handled no event has made no callback; taking an error result from the
\* channel changes neither the registry nor the callbacks made nor the
\* watched directories; no step of update changes the watched directories.
C28_NoMatchNoEffect == [] C28_Inv /\ [][C28_Act]_vars

\* two messages have been dealt with, and update has just handled an event
\* for a file that is not the file of any registered library: nothing was
\* called, and the registry and the watched directory are as they were
C28_Witness ==
    /\ EventDone
    /\ ev_no = 1
    /\ n_done = 2
    /\ n_sent = 2
    /\ log = <<>>
    /\ libs0 # <<>>
    /\ libs = libs0
    /\ \A j \in DOMAIN libs0 :
        /\ libs0[j].original_path # NoPath
        /\ libs0[j].original_path.name # file_path.name
        /\ parent(libs0[j].original_path) \in watched

====
